---- MODULE Spec2Model ----
\* A model of package retry (src/retry.go): RetryableError, its Unwrap,
\* and the retry loop DoWithData driven by a Backoff policy and a context.
EXTENDS Integers, Sequences, FiniteSets, TLC

\* ---------------------------------------------------------------- bounds
\* Deepest wrapping the operation puts around a base error.
MaxWrap == 2
\* Largest number of retries a policy grants before it reports stop.
MaxRetries == 2
\* Longest backoff interval, in timer ticks.
MaxDur == 1
\* Largest result value of the operation; 0 is the zero value of T.
MaxVal == 1

\* ---------------------------------------------------------------- errors
\* An error is the sequence of its wrapping chain, outermost first: "R" is a
\* *retryableError layer, "W" any other wrapping layer (fmt.Errorf with %w),
\* and the last element is the base error. nil is the empty chain.
Nil == <<>>

BaseErrs == {<<"errX">>, <<"errY">>}

\* ctx.Err() once Done is closed.
CtxErrs == {<<"context.Canceled">>, <<"context.DeadlineExceeded">>}

\* The zero value of T (var emptyT T).
Zero == 0

Values == 0..MaxVal

Durations == 0..MaxDur

\* A slip: the nil test of lines 31-33 is missing.
RetryableErrorAlways(e) == <<"R">> \o e

\* RetryableError(err): nil stays nil, anything else gets a marker layer.
RetryableError(e) == IF e = Nil THEN Nil ELSE <<"R">> \o e

\* A wrapping layer that is not a retryable marker.
Wrap(e) == <<"W">> \o e

\* A slip: unwrapping all the way down to the base error.
UnwrapToBase(r) == <<r[Len(r)]>>

\* (*retryableError).Unwrap: the error held inside the marker layer.
Unwrap(r) == Tail(r)

\* A slip: the walk keeps going and ends on the innermost marker.
AsTargetInnermost(e) ==
    LET idx == {i \in 1..Len(e) : e[i] = "R"}
    IN  IF idx = {} THEN Nil
        ELSE SubSeq(e, CHOOSE i \in idx : \A j \in idx : j <= i, Len(e))

\* A plausible slip: a type assertion on the outermost error only.
AsTargetOutermost(e) ==
    IF e = Nil THEN Nil
    ELSE IF Head(e) = "R" THEN e
    ELSE Nil

\* errors.As(err, &rerr) walks the chain from the outside and stops at the
\* first *retryableError; the value is the target it assigns (the chain from
\* that layer on), or Nil when the walk reaches the end.
RECURSIVE AsTarget(_)
AsTarget(e) ==
    IF e = Nil THEN Nil
    ELSE IF Head(e) = "R" THEN e
    ELSE AsTarget(Tail(e))

\* The boolean errors.As returns.
ErrorsAs(e) == AsTarget(e) # Nil

\* A retryable marker occurs at some depth of the chain of e.
HasMarker(e) == \E i \in 1..Len(e) : e[i] = "R"

\* The errors an operation can build from the base errors with at most n
\* layers of RetryableError and other wrapping.
RECURSIVE ErrorsUpTo(_)
ErrorsUpTo(n) ==
    IF n = 0 THEN BaseErrs
    ELSE LET P == ErrorsUpTo(n - 1)
         IN  P \cup {RetryableError(e) : e \in P} \cup {Wrap(e) : e \in P}

\* What f may return as its error.
OpResultErrs == {Nil} \cup ErrorsUpTo(MaxWrap)

\* ------------------------------------------------------- the return values
\* if err == nil (line 73).
SucceededNever(e) == FALSE

Succeeded(e) == e = Nil

\* return val, nil (line 74).
SuccessReturnEmpty(v) == <<Zero, Nil>>

SuccessReturn(v) == <<v, Nil>>

\* return emptyT, err (line 80).
NotRetryableReturnUnwrapped(e) == <<Zero, Tail(e)>>

NotRetryableReturn(e) == <<Zero, e>>

\* return emptyT, rerr.Unwrap() (line 85).
StopReturnWrapper(r) == <<Zero, r>>

StopReturn(r) == <<Zero, Unwrap(r)>>

\* return emptyT, ctx.Err() (lines 68, 91, 99).
CancelReturnNil(ce) == <<Zero, Nil>>

CancelReturn(ce) == <<Zero, ce>>

\* The non-blocking select on ctx.Done() at the top of the loop (66-70).
StartSelectSkipped(done) == FALSE

StartSelect(done) == done

\* A slip: the timer is started without testing ctx.Done() alone first.
PreWaitSelectSkipped(done) == FALSE

\* The non-blocking select on ctx.Done() before the timer (89-93).
PreWaitSelect(done) == done

\* case <-t.C (line 100) is ready once the timer has run down.
TimerFiredNever(t) == FALSE

TimerFired(t) == t = 0

\* Where `continue` (line 101) resumes: the top of the for body.
TimerContinuePastCheck == "invoke"

TimerContinueRewait == "prewait"

TimerContinue == "start"

\* ---------------------------------------------------------------- Do
\* fWithData (lines 53-55): the result of f with a nil value in front.
FWithData(e) == <<Zero, e>>

\* A slip: Do drops the error of DoWithData.
DoResultNil(r) == Nil

\* _, err := DoWithData(ctx, b, fWithData); return err (lines 57-58).
DoResult(r) == r[2]

\* ------------------------------------------------------------ the policy
\* Backoff.Next of a policy that grants `budget` more retries: the pair
\* <<stop, budget left>>.
BackoffNext(budget) ==
    IF budget = 0 THEN <<TRUE, 0>> ELSE <<FALSE, budget - 1>>

\* ---------------------------------------------------------------- state
VARIABLES
    pc,             \* position of DoWithData
    cancelled,      \* ctx.Done() is closed
    ctxErr,         \* ctx.Err()
    policyN,        \* retries the policy grants in this session
    budget,         \* the policy's internal state: retries left
    val, err,       \* what the last call of f returned
    rerr,           \* the target of errors.As
    next, stop,     \* what b.Next() returned
    timer,          \* ticks left on t
    retVal, retErr, \* what DoWithData returned
    retLine,        \* the return statement taken (source line), 0 if none
    calls,          \* invocations of f
    nextCalls,      \* calls of b.Next
    retryableFails, \* attempts that ended in a retryable error
    cancelPc,       \* where DoWithData was when the signal was triggered
    cancelCalls,    \* calls at that moment
    entry,          \* the function the caller called: "Do" or "DoWithData"
    doPc,           \* position of Do: "none", "called" or "returned"
    doErr,          \* what Do returned
    fCalls,         \* invocations of the RetryFunc given to Do
    markedReturns   \* attempts that returned an error carrying a marker

vars == <<pc, cancelled, ctxErr, policyN, budget, val, err, rerr, next, stop,
          timer, retVal, retErr, retLine, calls, nextCalls, retryableFails,
          cancelPc, cancelCalls, entry, doPc, doErr, fCalls,
          markedReturns>>

doVars == <<entry, doPc, doErr, fCalls>>

ctxVars == <<cancelled, ctxErr, cancelPc, cancelCalls>>

retVars == <<retVal, retErr, retLine>>

\* DoWithData is entered, directly or from Do (line 57), with a fresh policy
\* and a context that may already be cancelled.
Init ==
    /\ pc = "start"
    /\ entry \in {"Do", "DoWithData"}
    /\ doPc = (IF entry = "Do" THEN "called" ELSE "none")
    /\ doErr = Nil
    /\ fCalls = 0
    /\ markedReturns = 0
    /\ cancelled \in BOOLEAN
    /\ ctxErr \in (IF cancelled THEN CtxErrs ELSE {Nil})
    /\ cancelPc = (IF cancelled THEN "entry" ELSE "none")
    /\ cancelCalls = 0
    /\ policyN \in 0..MaxRetries
    /\ budget = policyN
    /\ val = Zero
    /\ err = Nil
    /\ rerr = Nil
    /\ next = 0
    /\ stop = FALSE
    /\ timer = 0
    /\ retVal = Zero
    /\ retErr = Nil
    /\ retLine = 0
    /\ calls = 0
    /\ nextCalls = 0
    /\ retryableFails = 0

\* A slip: `return val, err` where the code returns emptyT.
ReturnKeepsVal(r, line) ==
    /\ pc' = "done"
    /\ retVal' = val
    /\ retErr' = r[2]
    /\ retLine' = line

\* A return statement of DoWithData.
Return(r, line) ==
    /\ pc' = "done"
    /\ retVal' = r[1]
    /\ retErr' = r[2]
    /\ retLine' = line

\* The context is cancelled (or its deadline passes) while DoWithData runs.
Cancel ==
    /\ pc # "done"
    /\ ~cancelled
    /\ cancelled' = TRUE
    /\ ctxErr' \in CtxErrs
    /\ cancelPc' = pc
    /\ cancelCalls' = calls
    /\ UNCHANGED <<pc, policyN, budget, val, err, rerr, next, stop, timer,
                   retVal, retErr, retLine, calls, nextCalls, retryableFails,
                   doVars,
                   markedReturns>>

\* Lines 65-70: return immediately if ctx is canceled.
StartCheck ==
    /\ pc = "start"
    /\ IF StartSelect(cancelled)
       THEN Return(CancelReturn(ctxErr), 68)
       ELSE pc' = "invoke" /\ UNCHANGED retVars
    /\ UNCHANGED <<ctxVars, policyN, budget, val, err, rerr, next, stop,
                   timer, calls, nextCalls, retryableFails, doVars,
                   markedReturns>>

\* Line 72: f(ctx) is called; under Do it is fWithData, which calls the
\* RetryFunc (line 54).
Invoke ==
    /\ pc = "invoke"
    /\ pc' = "running"
    /\ calls' = calls + 1
    /\ fCalls' = (IF entry = "Do" THEN fCalls + 1 ELSE fCalls)
    /\ UNCHANGED <<ctxVars, retVars, policyN, budget, val, err, rerr, next,
                   stop, timer, nextCalls, retryableFails, entry, doPc,
                   doErr,
                   markedReturns>>

\* Line 72: f(ctx) returns a value and an error; under Do the RetryFunc
\* returns an error and fWithData pairs it with nil.
OpReturn ==
    /\ pc = "running"
    /\ \E v \in Values, e \in OpResultErrs :
          LET r == IF entry = "Do" THEN FWithData(e) ELSE <<v, e>>
          IN  /\ val' = r[1]
              /\ err' = r[2]
              /\ markedReturns' =
                     (IF HasMarker(e) THEN markedReturns + 1
                      ELSE markedReturns)
    /\ pc' = "classify"
    /\ UNCHANGED <<ctxVars, retVars, policyN, budget, rerr, next, stop,
                   timer, calls, nextCalls, retryableFails, doVars>>

\* A slip: ctx.Done() is tested again right after f returns.
ClassifyCtxFirst ==
    /\ pc = "classify"
    /\ IF cancelled
       THEN /\ Return(CancelReturn(ctxErr), 68)
            /\ UNCHANGED <<rerr, retryableFails>>
       ELSE IF Succeeded(err)
       THEN /\ Return(SuccessReturn(val), 74)
            /\ UNCHANGED <<rerr, retryableFails>>
       ELSE IF ~ErrorsAs(err)
       THEN /\ Return(NotRetryableReturn(err), 80)
            /\ UNCHANGED <<rerr, retryableFails>>
       ELSE /\ rerr' = AsTarget(err)
            /\ retryableFails' = retryableFails + 1
            /\ pc' = "consult"
            /\ UNCHANGED retVars
    /\ UNCHANGED <<ctxVars, policyN, budget, val, err, next, stop, timer,
                   calls, nextCalls, doVars,
                   markedReturns>>

\* Lines 73-81: success, or an error that errors.As does not find retryable.
Classify ==
    /\ pc = "classify"
    /\ IF Succeeded(err)
       THEN /\ Return(SuccessReturn(val), 74)
            /\ UNCHANGED <<rerr, retryableFails>>
       ELSE IF ~ErrorsAs(err)
       THEN /\ Return(NotRetryableReturn(err), 80)
            /\ UNCHANGED <<rerr, retryableFails>>
       ELSE /\ rerr' = AsTarget(err)
            /\ retryableFails' = retryableFails + 1
            /\ pc' = "consult"
            /\ UNCHANGED retVars
    /\ UNCHANGED <<ctxVars, policyN, budget, val, err, next, stop, timer,
                   calls, nextCalls, doVars,
                   markedReturns>>

\* Lines 83-86: b.Next(), and the return of the cause when it says stop.
Consult ==
    /\ pc = "consult"
    /\ nextCalls' = nextCalls + 1
    /\ stop' = BackoffNext(budget)[1]
    /\ budget' = BackoffNext(budget)[2]
    /\ IF stop'
       THEN /\ next' = 0
            /\ Return(StopReturn(rerr), 85)
       ELSE /\ next' \in Durations
            /\ pc' = "prewait"
            /\ UNCHANGED retVars
    /\ UNCHANGED <<ctxVars, policyN, val, err, rerr, timer, calls,
                   retryableFails, doVars,
                   markedReturns>>

\* Lines 88-95: ctx.Done() tested alone, then the timer is created.
PreWaitCheck ==
    /\ pc = "prewait"
    /\ IF PreWaitSelect(cancelled)
       THEN /\ Return(CancelReturn(ctxErr), 91)
            /\ UNCHANGED timer
       ELSE /\ pc' = "wait"
            /\ timer' = next
            /\ UNCHANGED retVars
    /\ UNCHANGED <<ctxVars, policyN, budget, val, err, rerr, next, stop,
                   calls, nextCalls, retryableFails, doVars,
                   markedReturns>>

\* Time passes while DoWithData is blocked in the select of line 96.
Tick ==
    /\ pc = "wait"
    /\ timer > 0
    /\ timer' = timer - 1
    /\ UNCHANGED <<pc, ctxVars, retVars, policyN, budget, val, err, rerr,
                   next, stop, calls, nextCalls, retryableFails, doVars,
                   markedReturns>>

\* Lines 97-99: the select takes the ctx.Done() case.
WaitDone ==
    /\ pc = "wait"
    /\ cancelled
    /\ Return(CancelReturn(ctxErr), 99)
    /\ UNCHANGED <<ctxVars, policyN, budget, val, err, rerr, next, stop,
                   timer, calls, nextCalls, retryableFails, doVars,
                   markedReturns>>

\* Lines 100-101: the select takes the t.C case and the loop continues.
WaitTimer ==
    /\ pc = "wait"
    /\ TimerFired(timer)
    /\ pc' = TimerContinue
    /\ UNCHANGED <<ctxVars, retVars, policyN, budget, val, err, rerr, next,
                   stop, timer, calls, nextCalls, retryableFails, doVars,
                   markedReturns>>

\* Lines 57-58: DoWithData has returned to Do, which returns its error.
DoReturn ==
    /\ entry = "Do"
    /\ doPc = "called"
    /\ pc = "done"
    /\ doPc' = "returned"
    /\ doErr' = DoResult(<<retVal, retErr>>)
    /\ UNCHANGED <<pc, ctxVars, retVars, policyN, budget, val, err, rerr,
                   next, stop, timer, calls, nextCalls, retryableFails,
                   entry, fCalls,
                   markedReturns>>

Next ==
    \/ Cancel
    \/ StartCheck
    \/ Invoke
    \/ OpReturn
    \/ Classify
    \/ Consult
    \/ PreWaitCheck
    \/ Tick
    \/ WaitDone
    \/ WaitTimer
    \/ DoReturn

Spec == Init /\ [][Next]_vars

\* The steps of DoWithData and of the clock; the cancellation is the only
\* step that need not happen.
Proceed ==
    \/ StartCheck
    \/ Invoke
    \/ OpReturn
    \/ Classify
    \/ Consult
    \/ PreWaitCheck
    \/ Tick
    \/ WaitDone
    \/ WaitTimer
    \/ DoReturn

\* Every attempt returns, time passes, and a ready select case is taken.
FairSpec == Spec /\ WF_vars(Proceed)

\* --------------------------------------- RetryableError, Unwrap, errors.As
\* The functions on errors applied to every error of up to MaxWrap + 1
\* layers, outside of any retry loop.
pureRest == <<cancelled, ctxErr, policyN, budget, val, next, stop, timer,
              retVal, retLine, calls, nextCalls, retryableFails, cancelPc,
              cancelCalls, entry, doPc, doErr, fCalls, markedReturns>>

PureInit ==
    /\ pc = "in"
    /\ err \in {Nil} \cup ErrorsUpTo(MaxWrap + 1)
    /\ rerr = Nil
    /\ retErr = Nil
    /\ cancelled = FALSE
    /\ ctxErr = Nil
    /\ cancelPc = "none"
    /\ cancelCalls = 0
    /\ policyN = 0
    /\ budget = 0
    /\ val = Zero
    /\ next = 0
    /\ stop = FALSE
    /\ timer = 0
    /\ retVal = Zero
    /\ retLine = 0
    /\ calls = 0
    /\ nextCalls = 0
    /\ retryableFails = 0
    /\ entry = "none"
    /\ doPc = "none"
    /\ doErr = Nil
    /\ fCalls = 0
    /\ markedReturns = 0

\* RetryableError(err) (lines 30-35).
ApplyRetryableError ==
    /\ pc = "in"
    /\ rerr' = RetryableError(err)
    /\ pc' = "wrapped"
    /\ UNCHANGED <<err, retErr, pureRest>>

\* Unwrap on the wrapper RetryableError built (lines 38-40).
ApplyUnwrap ==
    /\ pc = "wrapped"
    /\ rerr # Nil
    /\ retErr' = Unwrap(rerr)
    /\ pc' = "unwrapped"
    /\ UNCHANGED <<err, rerr, pureRest>>

\* errors.As(err, &rerr) (lines 78-79).
ApplyAs ==
    /\ pc = "in"
    /\ rerr' = AsTarget(err)
    /\ pc' = "found"
    /\ UNCHANGED <<err, retErr, pureRest>>

\* rerr.Unwrap() on the target errors.As found (line 85).
ApplyUnwrapFound ==
    /\ pc = "found"
    /\ rerr # Nil
    /\ retErr' = Unwrap(rerr)
    /\ pc' = "cause"
    /\ UNCHANGED <<err, rerr, pureRest>>

PureNext ==
    \/ ApplyRetryableError
    \/ ApplyUnwrap
    \/ ApplyAs
    \/ ApplyUnwrapFound

PureSpec == PureInit /\ [][PureNext]_vars

\* ------------------------------------------------------------ vocabulary
\* The attempts that have returned an error with a retryable marker.
RetryableCompleted == markedReturns

TypeOK ==
    /\ pc \in {"start", "invoke", "running", "classify", "consult",
               "prewait", "wait", "done"}
    /\ cancelled \in BOOLEAN
    /\ ctxErr \in CtxErrs \cup {Nil}
    /\ budget \in 0..policyN
    /\ val \in Values
    /\ err \in OpResultErrs
    /\ retVal \in Values
    /\ calls \in 0..(policyN + 1)

\* ---------------------------------------------------------------- claims

\* C1: when the operation's error carries no retryable marker anywhere in
\* its chain, the operation is not invoked again, Next is not called for it,
\* and DoWithData returns that very error; when it is the first attempt, the
\* operation was invoked exactly once and the policy was never consulted.
C1_NonRetryableNeverRetried ==
    (pc \in {"classify", "done"} /\ err # Nil /\ ~HasMarker(err)) =>
        /\ calls = retryableFails + 1
        /\ nextCalls = retryableFails
        /\ (retryableFails = 0 =>
               calls = 1 /\ nextCalls = 0 /\ budget = policyN)
        /\ (pc = "done" => retErr = err)

C1_Witness ==
    /\ pc = "done"
    /\ calls = 1
    /\ err = <<"W", "errX">>
    /\ retErr = <<"W", "errX">>

\* C2: never cancelled, the operation fails with RetryableError(e), and the
\* policy grants N retries and then stops: DoWithData has invoked the
\* operation N+1 times, consulted the policy N+1 times and returns e.
C2_ExhaustedReturnsCause ==
    \A e \in ErrorsUpTo(MaxWrap) :
        (pc = "done" /\ ~cancelled /\ err = RetryableError(e)) =>
            /\ stop
            /\ calls = policyN + 1
            /\ nextCalls = policyN + 1
            /\ retryableFails = policyN + 1
            /\ retErr = e

C2_Witness ==
    /\ pc = "done"
    /\ ~cancelled
    /\ policyN = 2
    /\ calls = 3
    /\ err = <<"R", "errX">>
    /\ retErr = <<"errX">>

\* C3: never cancelled, K retryable failures within the policy's budget and
\* then a success with value v: the operation was invoked K+1 times and
\* DoWithData returns (v, nil).
C3_SuccessAfterRetries ==
    (pc = "done" /\ ~cancelled /\ calls >= 1 /\ err = Nil) =>
        /\ retryableFails <= policyN
        /\ calls = retryableFails + 1
        /\ nextCalls = retryableFails
        /\ retVal = val
        /\ retErr = Nil

C3_Witness ==
    /\ pc = "done"
    /\ ~cancelled
    /\ retryableFails = 2
    /\ calls = 3
    /\ err = Nil
    /\ retVal = 1
    /\ retErr = Nil

\* C4: when the first attempt succeeds (the signal not being triggered
\* before it), DoWithData returns its value with no error, Next was never
\* called and the policy's state is what it was at entry.
C4_FirstSuccessLeavesPolicy ==
    (pc = "done" /\ cancelPc # "entry" /\ calls = 1 /\ err = Nil) =>
        /\ retVal = val
        /\ retErr = Nil
        /\ nextCalls = 0
        /\ budget = policyN

C4_Witness ==
    /\ pc = "done"
    /\ cancelPc = "none"
    /\ calls = 1
    /\ err = Nil
    /\ val = 1
    /\ retVal = 1
    /\ policyN = MaxRetries
    /\ budget = MaxRetries

\* C5: when the signal is already triggered at entry, the operation is
\* never invoked, the policy is never consulted, and DoWithData returns the
\* zero value with the cancellation error.
C5_CancelledAtEntry ==
    (cancelPc = "entry") =>
        /\ pc \in {"start", "done"}
        /\ calls = 0
        /\ nextCalls = 0
        /\ budget = policyN
        /\ (pc = "done" =>
               retErr \in CtxErrs /\ retErr = ctxErr /\ retVal = Zero)

C5_Witness ==
    /\ pc = "done"
    /\ cancelPc = "entry"
    /\ calls = 0
    /\ retErr = <<"context.Canceled">>

\* C6: when the signal is triggered during the wait after attempt N, no
\* further attempt starts and DoWithData returns the cancellation error,
\* whichever case the select takes.
C6_CancelledWhileWaiting ==
    (cancelPc = "wait") =>
        /\ pc \in {"wait", "start", "done"}
        /\ calls = cancelCalls
        /\ nextCalls = cancelCalls
        /\ (pc = "done" => retErr \in CtxErrs /\ retErr = ctxErr)

\* The timer case was taken although the signal was already triggered, and
\* the check at the top of the loop returned.
C6_Witness ==
    /\ pc = "done"
    /\ cancelPc = "wait"
    /\ retLine = 68
    /\ calls = 1

\* C7 as stated: the operation is never about to be invoked in a state
\* where the signal is already triggered.
C7_NeverInvokedWhenCancelled == ~(pc = "invoke" /\ cancelled)

\* C7 amended: when the operation is about to be invoked with the signal
\* triggered, the signal was triggered after this iteration's check at the
\* top of the loop; a signal triggered before that check stops the attempt.
C7_InvokedOnlyPastCleanCheck ==
    (pc = "invoke" /\ cancelled) =>
        /\ cancelPc = "invoke"
        /\ cancelCalls = calls

C7_Witness ==
    /\ pc = "running"
    /\ cancelPc = "invoke"
    /\ calls = cancelCalls + 1
    /\ calls = 2

\* C8: every return of DoWithData is the value of a successful attempt with
\* no error, the unmarked error of the attempt, the error inside a retryable
\* marker of the attempt's error when the policy said stop, or the
\* cancellation error; a nil error is returned only on success.
C8_FourOutcomes ==
    (pc = "done") =>
        /\ \/ /\ calls >= 1 /\ err = Nil
              /\ retErr = Nil /\ retVal = val
           \/ /\ err # Nil /\ ~HasMarker(err)
              /\ retErr = err
           \/ /\ HasMarker(err) /\ stop
              /\ retErr # Nil
              /\ \E i \in 1..Len(err) :
                    /\ err[i] = "R"
                    /\ retErr = SubSeq(err, i + 1, Len(err))
           \/ /\ cancelled
              /\ retErr \in CtxErrs /\ retErr = ctxErr
        /\ (retErr = Nil => calls >= 1 /\ err = Nil /\ retVal = val)

\* The policy is exhausted while the signal is triggered: the cause is
\* returned.
C8_Witness ==
    /\ pc = "done"
    /\ cancelled
    /\ stop
    /\ err = <<"W", "R", "errY">>
    /\ retErr = <<"errY">>

\* C9: the error DoWithData returns has no retryable marker anywhere in its
\* chain.
C9_NoMarkerReturned == (pc = "done") => ~HasMarker(retErr)

\* C10: the step that classifies the error of an attempt goes on to consult
\* the policy exactly when a retryable marker occurs at some depth of the
\* error's chain, and returns the error otherwise.
C10_ChainClassification ==
    [][(pc = "classify" /\ pc' # "classify" /\ err # Nil) =>
          /\ (pc' = "consult") <=> HasMarker(err)
          /\ (pc' # "consult") => (pc' = "done" /\ retErr' = err)]_vars

C10_Witness ==
    /\ pc = "running"
    /\ calls = 2
    /\ err = <<"W", "R", "errX">>
    /\ nextCalls = 1

\* C11: when every attempt returns, every wait elapses or is cancelled, and
\* the policy stops after finitely many consultations, DoWithData eventually
\* returns.
C11_Terminates == <>(pc = "done")

\* The longest run: the policy's whole budget was used before the return.
C11_Witness ==
    /\ pc = "done"
    /\ policyN = MaxRetries
    /\ calls = MaxRetries + 1
    /\ nextCalls = MaxRetries + 1
    /\ cancelPc = "none"

\* C12: Do is DoWithData on the wrapped operation with the result dropped:
\* the RetryFunc is invoked once per invocation DoWithData makes, the policy
\* is consulted by DoWithData alone, the value handed to DoWithData is nil,
\* and Do returns the error DoWithData returned.
C12_DoIsDoWithData ==
    (entry = "Do") =>
        /\ fCalls = calls
        /\ val = Zero
        /\ (doPc = "returned" =>
               /\ pc = "done"
               /\ doErr = retErr
               /\ nextCalls = retryableFails)

C12_Witness ==
    /\ entry = "Do"
    /\ doPc = "returned"
    /\ fCalls = 2
    /\ nextCalls = 2
    /\ doErr = <<"errX">>

\* C13: for every non-nil error e, Unwrap of RetryableError(e) is e.
C13_UnwrapOfRetryable ==
    (pc = "unwrapped") => (err # Nil /\ retErr = err)

C13_Witness ==
    /\ pc = "unwrapped"
    /\ err = <<"R", "W", "errX">>
    /\ rerr = <<"R", "R", "W", "errX">>
    /\ retErr = <<"R", "W", "errX">>

\* C14: RetryableError(nil) is nil, not a retryable wrapper.
C14_RetryableOfNil ==
    (pc = "wrapped" /\ err = Nil) => (rerr = Nil /\ ~HasMarker(rerr))

C14_Witness ==
    /\ pc = "wrapped"
    /\ err = Nil
    /\ rerr = Nil

\* C15: when the signal is triggered while an attempt is in progress, the
\* attempt fails retryably and the policy answers stop=false, DoWithData
\* returns the cancellation error from the check before the wait: the wait
\* is never entered and no further attempt starts.
C15_CancelledDuringAttempt ==
    (cancelPc = "running") =>
        /\ pc \in {"running", "classify", "consult", "prewait", "done"}
        /\ calls = cancelCalls
        /\ (pc = "done" /\ HasMarker(err) /\ ~stop =>
               /\ retErr \in CtxErrs /\ retErr = ctxErr
               /\ retVal = Zero
               /\ retLine = 91
               /\ nextCalls = calls)

C15_Witness ==
    /\ pc = "done"
    /\ cancelPc = "running"
    /\ calls = 2
    /\ HasMarker(err)
    /\ ~stop
    /\ next = MaxDur
    /\ retErr = <<"context.DeadlineExceeded">>

\* C16: a wait whose duration has elapsed or whose signal has been
\* triggered is left, for the top of the loop or with the cancellation
\* error.
C16_NoMissedWakeup ==
    (pc = "wait" /\ (timer = 0 \/ cancelled)) ~>
        \/ pc = "start"
        \/ (pc = "done" /\ retErr \in CtxErrs /\ retErr = ctxErr)

\* Both at once: the duration has elapsed and the signal is triggered.
C16_Witness ==
    /\ pc = "wait"
    /\ timer = 0
    /\ cancelled
    /\ cancelPc = "wait"

\* C17: on exhaustion the returned error is what the first retryable
\* marker of the chain holds directly: exactly one layer is removed, and
\* the wrappers outside the marker are dropped with it.
C17_OneLayerUnwrapped ==
    (pc = "done" /\ retLine = 85) =>
        \E i \in 1..Len(err) :
            /\ err[i] = "R"
            /\ \A j \in 1..(i - 1) : err[j] # "R"
            /\ retErr = SubSeq(err, i + 1, Len(err))

C17_Witness ==
    /\ pc = "done"
    /\ retLine = 85
    /\ err = <<"R", "R", "errX">>
    /\ retErr = <<"R", "errX">>

\* C18 as stated: in every state the calls of Next number the completed
\* attempts that returned a retryable error.
C18_NextCallsEqualRetryable == nextCalls = RetryableCompleted

\* C18 amended: the two numbers are equal except between the return of a
\* retryably failing attempt and the call of Next it leads to, where Next
\* is one call behind; Next is called at most once between two attempts,
\* and not after a success, after an unmarked error, or when the check at
\* the top of the loop sees the signal.
C18_NextOncePerRetryableFailure ==
    /\ (pc \notin {"classify", "consult"}) => nextCalls = RetryableCompleted
    /\ (pc \in {"classify", "consult"}) =>
           (nextCalls <= RetryableCompleted
               /\ RetryableCompleted <= nextCalls + 1)
    /\ (pc = "consult") => RetryableCompleted = nextCalls + 1
    /\ nextCalls <= calls
    /\ calls <= nextCalls + 1
    /\ (pc = "done" /\ retLine \in {74, 80}) => nextCalls = calls - 1
    /\ (pc = "done" /\ retLine = 68) => nextCalls = calls

C18_Witness ==
    /\ pc = "done"
    /\ retLine = 80
    /\ calls = 3
    /\ nextCalls = 2
    /\ retryableFails = 2

\* C19: a signal triggered while an attempt is in progress does not change
\* the outcome when that attempt succeeds, fails with an unmarked error, or
\* fails retryably with the policy answering stop (consulted all the same):
\* the cancellation error is not returned.
C19_CancelDuringAttemptUnobserved ==
    (cancelPc = "running" /\ pc = "done") =>
        /\ (err = Nil => retErr = Nil /\ retVal = val /\ retLine = 74)
        /\ (err # Nil /\ ~HasMarker(err) => retErr = err /\ retLine = 80)
        /\ (HasMarker(err) /\ stop =>
               /\ retLine = 85
               /\ retErr \notin CtxErrs
               /\ nextCalls = calls
               /\ budget = 0)
        /\ (retLine \in {68, 91, 99} => HasMarker(err) /\ ~stop)

C19_Witness ==
    /\ pc = "done"
    /\ cancelPc = "running"
    /\ cancelCalls = 1
    /\ err = Nil
    /\ val = 1
    /\ retVal = 1
    /\ retErr = Nil

\* C20: a non-nil error is returned with the zero value of T, whatever
\* value the failing attempt returned beside its error; a non-zero value is
\* returned only with a nil error.
C20_ZeroValueWithError ==
    (pc = "done") =>
        /\ (retErr # Nil => retVal = Zero)
        /\ (retVal # Zero => retErr = Nil /\ retLine = 74)

C20_Witness ==
    /\ pc = "done"
    /\ val = 1
    /\ err = <<"errY">>
    /\ retErr = <<"errY">>
    /\ retVal = Zero

====
